---- MODULE Spec2Model ----
(***************************************************************************)
(* Model of src/source/model.py (accelerating-amg): the graph builder      *)
(* AMGDataset.process with its sparsity matcher, the message passing of    *)
(* AMGModel.forward, the two prolongation assemblers and the conversion    *)
(* dgl_graph_to_sparse_matrices.                                           *)
(*                                                                         *)
(* Indices are 0-based as in the source.  A sparse matrix is a record      *)
(* [shape |-> <<rows, cols>>, ent |-> [stored positions -> value]];        *)
(* a position is a pair <<row, col>>.                                      *)
(***************************************************************************)
EXTENDS Integers, Sequences, FiniteSets, TLC

\* ------------------------------------------------------------- bounds
MaxN == 2          \* largest matrix dimension
MaxNnz == 2        \* most stored entries of an input matrix
MaxPat == 2        \* most stored entries of a baseline pattern / baseline_P
MaxCoarse == 2     \* longest coarse_nodes list

Vals == {-1, 2}    \* values of the stored entries of an input matrix
PVals == {1, 2}    \* values of the stored entries of baseline_P
Vols == {0, 3}     \* node volumes

OneVal == {1}      \* a single entry value, where the values play no part

VARIABLES
  matrix,                  \* As[i] (process) / matrix (assemblers): the caller's object
  coarse_nodes,            \* coarse_nodes_list[i] / coarse_nodes: a sequence of indices
  sparsity_pattern,        \* sparsity_patterns[i]: sequence of positions (rows[k], cols[k])
  same_indices,            \* process: the matcher's boolean vector (<<>> before it ran)
  graph,                   \* process: the graph appended to self.graphs, or NoGraph
  gstate,                  \* process: "idle", "init", "built" or the exception raised
  sparse_out,              \* dgl_graph_to_sparse_matrices: its outcome
  pc,                      \* forward: position in the method
  scope,                   \* forward: the features set inside g.local_scope()
  n_encs, e_encs, h,       \* forward: its local variables
  calls,                   \* forward: the SAGEConv calls made so far (history)
  matrix0,                 \* assemblers: the caller's matrix as it was before any call
  baseline_P,              \* assemblers: baseline_P
  nodes,                   \* assemblers: nodes (node volumes)
  normalize_rows,          \* assemblers: normalize_rows
  normalize_rows_by_node,  \* assemblers: normalize_rows_by_node
  csr_out,                 \* to_prolongation_matrix_csr: its outcome
  tensor_out               \* to_prolongation_matrix_tensor: its outcome

graph_vars == <<sparsity_pattern, same_indices, graph, gstate, sparse_out>>
fwd_vars == <<pc, scope, n_encs, e_encs, h, calls>>
asm_vars == <<matrix0, baseline_P, nodes, normalize_rows, normalize_rows_by_node,
              csr_out, tensor_out>>
vars == <<matrix, coarse_nodes, graph_vars, fwd_vars, asm_vars>>

\* ------------------------------------------------------------- helpers
Range(s) == {s[k] : k \in 1..Len(s)}

IsDupFree(s) == \A i, j \in 1..Len(s) : i # j => s[i] # s[j]

\* duplicate-free sequences over S of length lo..hi
DupFreeSeqs(S, lo, hi) ==
  UNION {{s \in [1..k -> S] : IsDupFree(s)} : k \in lo..hi}

Positions(nr, nc) == (0..(nr - 1)) \X (0..(nc - 1))

\* the sparse matrices of shape nr x nc with at most maxnz stored entries
Matrices(nr, nc, maxnz, vals) ==
  UNION {{[shape |-> <<nr, nc>>, ent |-> e] : e \in [S -> vals]} :
           S \in {T \in SUBSET Positions(nr, nc) : Cardinality(T) <= maxnz}}

Stored(m) == DOMAIN m.ent

Max(S) == CHOOSE x \in S : \A y \in S : y <= x

\* numpy's order on records of dtype 'i,i' (and on plain integers, written <<i>>):
\* field by field
RECURSIVE TupleLess(_, _)
TupleLess(a, b) ==
  IF a = <<>> \/ b = <<>> THEN FALSE
  ELSE \/ Head(a) < Head(b)
       \/ Head(a) = Head(b) /\ TupleLess(Tail(a), Tail(b))

\* ar.argsort(kind='mergesort'): the stable sorting permutation of a sequence
ArgSort(ar) ==
  LET n == Len(ar)
      rank(i) == Cardinality({j \in 1..n : \/ TupleLess(ar[j], ar[i])
                                           \/ ar[j] = ar[i] /\ j < i}) + 1
  IN [k \in 1..n |-> CHOOSE i \in 1..n : rank(i) = k]

\* csr.tocoo(): the stored entries in row-major order, as parallel arrays
ToCoo(m) ==
  LET S == Stored(m)
      n == Cardinality(S)
      rank(p) == Cardinality({q \in S : TupleLess(q, p)}) + 1
      at(k) == CHOOSE p \in S : rank(p) = k
  IN [row |-> [k \in 1..n |-> at(k)[1]],
      col |-> [k \in 1..n |-> at(k)[2]],
      data |-> [k \in 1..n |-> m.ent[at(k)]]]

\* np.core.records.fromarrays([a, b], dtype='i,i')
FromArrays(a, b) == [k \in 1..Len(a) |-> <<a[k], b[k]>>]

\* range(n) as an array
ArrayRange(n) == [k \in 1..n |-> <<k - 1>>]

\* np.in1d picks one of two code paths by the sizes of its arguments; both are
\* modelled and process may take either.
\* np.in1d(ar1, ar2, assume_unique=True), small-ar2 path:
\*   mask = zeros; for a in ar2: mask |= (ar1 == a)
In1dLoop(ar1, ar2) ==
  [k \in 1..Len(ar1) |-> \E j \in 1..Len(ar2) : ar1[k] = ar2[j]]

\* a sorting path that returns the flags in sorted order, not scattered back
In1dSortBad(ar1, ar2) ==
  LET ar == ar1 \o ar2
      n == Len(ar)
      Flags(order) ==
        LET sar == [k \in 1..n |-> ar[order[k]]]
            flag == [k \in 1..n |-> IF k < n THEN sar[k + 1] = sar[k] ELSE FALSE]
        IN [k \in 1..Len(ar1) |-> flag[k]]
  IN CHOOSE ret \in {Flags(order) : order \in {ArgSort(ar)}} : TRUE

\* np.in1d(ar1, ar2, assume_unique=True), sorting path:
\*   ar = concatenate((ar1, ar2)); order = ar.argsort(kind='mergesort')
\*   sar = ar[order]; flag = concatenate((sar[1:] == sar[:-1], [False]))
\*   ret[order] = flag; return ret[:len(ar1)]
\* (order is bound in a set so that the permutation is computed once)
In1dSort(ar1, ar2) ==
  LET ar == ar1 \o ar2
      n == Len(ar)
      Flags(order) ==
        LET sar == [k \in 1..n |-> ar[order[k]]]
            flag == [k \in 1..n |-> IF k < n THEN sar[k + 1] = sar[k] ELSE FALSE]
            ret == [i \in 1..n |-> flag[CHOOSE k \in 1..n : order[k] = i]]
        IN [k \in 1..Len(ar1) |-> ret[k]]
  IN CHOOSE ret \in {Flags(order) : order \in {ArgSort(ar)}} : TRUE

In1dKinds == {"loop", "sort"}

In1d(ar1, ar2, kind) ==
  IF kind = "loop" THEN In1dLoop(ar1, ar2) ELSE In1dSort(ar1, ar2)

\* ------------------------------------------------------------- process
NoGraph == [num_nodes |-> -1]

\* dgl.graph((u, v)) without num_nodes: the node count is the largest id plus one
DglGraph(u, v) ==
  [num_nodes |-> IF Len(u) = 0 THEN 0 ELSE Max(Range(u) \cup Range(v)) + 1,
   src |-> u, dst |-> v]

\* astype(np.float64) of a boolean array
AsFloat(b) == [k \in 1..Len(b) |-> IF b[k] THEN 1 ELSE 0]

Not(b) == [k \in 1..Len(b) |-> ~b[k]]

\* AMGDataset.process, the body of the loop for one example.  Setting a node
\* feature whose length is not the graph's node count raises DGLError.
BuildGraph(A, coarse, pattern, kind) ==
  LET rows == [k \in 1..Len(pattern) |-> pattern[k][1]]
      cols == [k \in 1..Len(pattern) |-> pattern[k][2]]
      A_coo == ToCoo(A)
      baseline_P_indices == FromArrays(rows, cols)
      coo_indices == FromArrays(A_coo.row, A_coo.col)
      same == In1d(coo_indices, baseline_P_indices, kind)
      g == DglGraph(A_coo.row, A_coo.col)
      coarse_indices ==
        In1d(ArrayRange(A.shape[1]), [k \in 1..Len(coarse) |-> <<coarse[k]>>], kind)
  IN IF Len(coarse_indices) # g.num_nodes
       THEN [state |-> "DGLError", same |-> same, g |-> NoGraph]
       ELSE [state |-> "built", same |-> same,
             g |-> [num_nodes |-> g.num_nodes,
                    src |-> g.src, dst |-> g.dst,
                    A |-> A_coo.data,
                    SP1 |-> AsFloat(same),
                    SP0 |-> AsFloat(Not(same)),
                    C |-> AsFloat(coarse_indices),
                    F |-> AsFloat(Not(coarse_indices))]]

\* AMGDataset.process on one example: the graph is appended to self.graphs unless
\* the body raised
process ==
  /\ gstate = "init"
  /\ \E kind \in In1dKinds :
       \E b \in {BuildGraph(matrix, coarse_nodes, sparsity_pattern, kind)} :
          /\ same_indices' = b.same
          /\ gstate' = b.state
          /\ graph' = b.g
  /\ UNCHANGED <<matrix, coarse_nodes, sparsity_pattern, sparse_out, fwd_vars, asm_vars>>

\* ------------------------------------------- dgl_graph_to_sparse_matrices
NoResult == [state |-> "none"]

\* torch.stack((u, v), axis=0): a 2 x E index tensor
Stack(u, v) == [dim |-> 2, rows |-> <<u, v>>]

\* graph.edata[val_feature]: the 1-d feature tensor process stored
Edata(g, val_feature) ==
  [dim |-> 1, rows |-> <<IF val_feature = "A" THEN g.A
                         ELSE IF val_feature = "SP1" THEN g.SP1 ELSE g.SP0>>]

\* torch.sparse_coo_tensor(indices, values, size).coalesce(): indices must be a
\* sparse_dim x nnz tensor, anything else raises RuntimeError; coalesce sorts the
\* entries (the values model has no duplicate positions to sum)
SparseCooTensor(indices, values, size) ==
  IF indices.dim # 2 \/ Len(indices.rows) # Len(size)
    THEN [state |-> "RuntimeError"]
    ELSE [state |-> "returned",
          shape |-> size,
          triples |-> {<<indices.rows[1][k], indices.rows[2][k], values.rows[1][k]>> :
                         k \in 1..Len(values.rows[1])}]

\* dgl_graph_to_sparse_matrices([graph], val_feature='A'), the loop body for the graph
dgl_graph_to_sparse_matrices ==
  /\ gstate = "built"
  /\ sparse_out = NoResult
  /\ LET indices1 == Stack(graph.src, graph.dst)
         indices == Edata(graph, "A")      \* line 378 rebinds the name indices
         n_nodes == graph.num_nodes
     IN sparse_out' = SparseCooTensor(indices, indices, <<n_nodes, n_nodes>>)
  /\ UNCHANGED <<matrix, coarse_nodes, sparsity_pattern, same_indices, graph, gstate,
                 fwd_vars, asm_vars>>

\* ------------------------------------------------------------- idle parts
IdleGraph ==
  /\ sparsity_pattern = <<>> /\ same_indices = <<>> /\ graph = NoGraph
  /\ gstate = "idle" /\ sparse_out = NoResult

NoTerm == [op |-> "none", name |-> "", args |-> <<>>]

IdleFwd ==
  /\ pc = "idle" /\ scope = <<>> /\ n_encs = NoTerm /\ e_encs = NoTerm /\ h = NoTerm
  /\ calls = <<>>

EmptyMatrix == [shape |-> <<0, 0>>, ent |-> <<>>]

IdleAsm ==
  /\ matrix0 = EmptyMatrix /\ baseline_P = EmptyMatrix /\ nodes = <<>>
  /\ normalize_rows = FALSE /\ normalize_rows_by_node = FALSE
  /\ csr_out = NoResult /\ tensor_out = NoResult

\* ------------------------------------------------------------- AMGModel.forward
\* Tensors are terms: what was computed from what.  A term is a record
\* [op, name, args]; the graph's own features are the leaves.
Data(name) == [op |-> "data", name |-> name, args |-> <<>>]
Cat(xs) == [op |-> "cat", name |-> "", args |-> xs]
Relu(x) == [op |-> "relu", name |-> "", args |-> <<x>>]
Linear(W, x) == [op |-> "linear", name |-> W, args |-> <<x>>]
SAGEConv(conv, feat, edge_weight) ==
  [op |-> "SAGEConv", name |-> conv, args |-> <<feat, edge_weight>>]
Src(x) == [op |-> "src", name |-> "", args |-> <<x>>]
Dst(x) == [op |-> "dst", name |-> "", args |-> <<x>>]

encode_nodes == Linear("W2", Relu(Linear("W1", Cat(<<Data("C"), Data("F")>>))))

encode_edges ==
  Linear("W6", Relu(Linear("W5", Cat(<<Data("A"), Data("SP1"), Data("SP0")>>))))

decode_edges(x) == Linear("W10", Relu(Linear("W9", Cat(<<Src(x), Dst(x)>>))))

Call(conv, feat, edge_weight) == [conv |-> conv, feat |-> feat, edge_weight |-> edge_weight]

\* lines 183-190: encode nodes and edges inside the local scope, read them back
forward_encode ==
  /\ pc = "start"
  /\ scope' = [node_encs |-> encode_nodes, edge_encs |-> encode_edges]
  /\ n_encs' = encode_nodes
  /\ e_encs' = encode_edges
  /\ pc' = "encoded"
  /\ UNCHANGED <<matrix, coarse_nodes, graph_vars, h, calls, asm_vars>>

\* lines 193-194
forward_round1 ==
  /\ pc = "encoded"
  /\ h' = Relu(SAGEConv("conv1", n_encs, e_encs))
  /\ calls' = Append(calls, Call("conv1", n_encs, e_encs))
  /\ pc' = "round1"
  /\ UNCHANGED <<matrix, coarse_nodes, graph_vars, scope, n_encs, e_encs, asm_vars>>

\* lines 196-198
forward_round2 ==
  /\ pc = "round1"
  /\ LET x == Cat(<<h, n_encs>>)
     IN /\ h' = Relu(SAGEConv("conv2", x, e_encs))
        /\ calls' = Append(calls, Call("conv2", x, e_encs))
  /\ pc' = "round2"
  /\ UNCHANGED <<matrix, coarse_nodes, graph_vars, scope, n_encs, e_encs, asm_vars>>

\* a round 3 that skips the concatenation with the encoded node latents
forward_round3_noskip ==
  /\ pc = "round2"
  /\ LET x == Cat(<<h, h>>)
     IN /\ h' = SAGEConv("conv2", x, e_encs)
        /\ calls' = Append(calls, Call("conv2", x, e_encs))
  /\ pc' = "round3"
  /\ UNCHANGED <<matrix, coarse_nodes, graph_vars, scope, n_encs, e_encs, asm_vars>>

\* lines 200-201 (the third round runs conv2 again; conv3 is never called)
forward_round3 ==
  /\ pc = "round2"
  /\ LET x == Cat(<<h, n_encs>>)
     IN /\ h' = SAGEConv("conv2", x, e_encs)
        /\ calls' = Append(calls, Call("conv2", x, e_encs))
  /\ pc' = "round3"
  /\ UNCHANGED <<matrix, coarse_nodes, graph_vars, scope, n_encs, e_encs, asm_vars>>

\* lines 204-216: decode inside the scope; leaving the scope drops what it set,
\* so new_P is stored on the caller's graph, which is returned
forward_decode ==
  /\ pc = "round3"
  /\ scope' = [node_encs |-> scope.node_encs, edge_encs |-> scope.edge_encs,
               h |-> h, new_P |-> decode_edges(h)]
  /\ graph' = [num_nodes |-> graph.num_nodes, src |-> graph.src, dst |-> graph.dst,
               A |-> graph.A, SP1 |-> graph.SP1, SP0 |-> graph.SP0,
               C |-> graph.C, F |-> graph.F, new_P |-> decode_edges(h)]
  /\ pc' = "returned"
  /\ UNCHANGED <<matrix, coarse_nodes, sparsity_pattern, same_indices, gstate,
                 sparse_out, n_encs, e_encs, h, calls, asm_vars>>

\* ------------------------------------------------------------- float64 values
\* A float is a finite rational n/d in lowest terms, an infinity (n is its sign) or
\* nan.  Rounding is not modelled: finite arithmetic is exact.
RECURSIVE GCD(_, _)
GCD(a, b) == IF b = 0 THEN a ELSE GCD(b, a % b)

Abs(x) == IF x < 0 THEN -x ELSE x
Sgn(x) == IF x < 0 THEN -1 ELSE IF x = 0 THEN 0 ELSE 1

Frac(n, d) ==
  LET g == GCD(Abs(n), d) IN [k |-> "fin", n |-> n \div g, d |-> d \div g]

Fl(i) == [k |-> "fin", n |-> i, d |-> 1]
Inf(sign) == [k |-> "inf", n |-> sign, d |-> 0]
NaN == [k |-> "nan", n |-> 0, d |-> 0]

FAdd(a, b) ==
  IF a.k = "nan" \/ b.k = "nan" THEN NaN
  ELSE IF a.k = "inf" /\ b.k = "inf" THEN (IF a.n = b.n THEN a ELSE NaN)
  ELSE IF a.k = "inf" THEN a
  ELSE IF b.k = "inf" THEN b
  ELSE Frac(a.n * b.d + b.n * a.d, a.d * b.d)

FMul(a, b) ==
  IF a.k = "nan" \/ b.k = "nan" THEN NaN
  ELSE IF a.k = "inf" \/ b.k = "inf"
    THEN (IF a.n = 0 \/ b.n = 0 THEN NaN ELSE Inf(Sgn(a.n) * Sgn(b.n)))
  ELSE Frac(a.n * b.n, a.d * b.d)

\* division by zero gives an infinity, or nan for 0/0, and raises nothing
FDiv(a, b) ==
  IF a.k = "nan" \/ b.k = "nan" THEN NaN
  ELSE IF a.k = "inf" THEN (IF b.k = "inf" THEN NaN
                            ELSE Inf(a.n * (IF b.n < 0 THEN -1 ELSE 1)))
  ELSE IF b.k = "inf" THEN Fl(0)
  ELSE IF b.n = 0 THEN (IF a.n = 0 THEN NaN ELSE Inf(Sgn(a.n)))
  ELSE Frac(a.n * b.d * Sgn(b.n), a.d * Abs(b.n))

\* torch.nan_to_num(x, nan=0.0, posinf=0.0, neginf=0.0)
NanToNum(x) == IF x.k = "fin" THEN x ELSE Fl(0)

RECURSIVE FSum(_)
FSum(xs) == IF xs = <<>> THEN Fl(0) ELSE FAdd(Head(xs), FSum(Tail(xs)))

\* ------------------------------------------------------------- assemblers
\* A dense tensor is [shape, val] with val given at every position; the sparse
\* results hold floats at their stored positions.
Rows(m) == 0..(m.shape[1] - 1)
Cols(m) == 0..(m.shape[2] - 1)

\* matrix.setdiag(np.ones(matrix.shape[0])): in place, storing missing diagonal entries
SetDiag(m) ==
  LET diag == {<<i, i>> : i \in Rows(m) \cap Cols(m)}
  IN [shape |-> m.shape,
      ent |-> [p \in Stored(m) \cup diag |-> IF p \in diag THEN 1 ELSE m.ent[p]]]

\* matrix[:, coarse_nodes] of a sparse matrix
SelectColsCsr(m, coarse) ==
  LET S == {<<r, j - 1>> : r \in Rows(m), j \in 1..Len(coarse)}
  IN [shape |-> <<m.shape[1], Len(coarse)>>,
      ent |-> [p \in {q \in S : <<q[1], coarse[q[2] + 1]>> \in Stored(m)} |->
                 m.ent[<<p[1], coarse[p[2] + 1]>>]]]

\* (baseline_P != 0).astype(np.float64); matrix.multiply(mask); eliminate_zeros()
MaskCsr(m, P) ==
  LET mask == {p \in Stored(P) : P.ent[p] # 0}
  IN [shape |-> m.shape,
      ent |-> [p \in {q \in Stored(m) \cap mask : m.ent[q] # 0} |-> m.ent[p]]]

RowSeq(m, r) ==
  LET cs == {c \in Cols(m) : <<r, c>> \in Stored(m)}
      n == Cardinality(cs)
      at(k) == CHOOSE c \in cs : Cardinality({x \in cs : x < c}) = k - 1
  IN [k \in 1..n |-> m.ent[<<r, at(k)>>]]

RECURSIVE Sum(_)
Sum(xs) == IF xs = <<>> THEN 0 ELSE Head(xs) + Sum(Tail(xs))

\* np.array(m.sum(axis=1))[:, 0], as a function of the row
RowSumCsr(m) == [r \in Rows(m) |-> Sum(RowSeq(m, r))]

\* the target row sums: nodes, or the row sums of baseline_P
BaselineRowSum(P, nds, by_node) ==
  IF by_node THEN [r \in Rows(P) |-> nds[r + 1]] ELSE RowSumCsr(P)

\* a scaling that forgets the target row sum
ScaleRowsCsrNoTarget(m, matrix_row_sum, baseline_row_sum) ==
  [shape |-> m.shape,
   ent |-> [p \in Stored(m) |-> FDiv(Fl(m.ent[p]), Fl(matrix_row_sum[p[1]]))]]

\* matrix_copy.data /= matrix_row_sum.repeat(...); matrix_copy.data *= baseline_row_sum.repeat(...)
\* : every stored entry is divided by its row's sum and multiplied by its row's target
ScaleRowsCsr(m, matrix_row_sum, baseline_row_sum) ==
  [shape |-> m.shape,
   ent |-> [p \in Stored(m) |->
              FMul(FDiv(Fl(m.ent[p]), Fl(matrix_row_sum[p[1]])),
                   Fl(baseline_row_sum[p[1]]))]]

AsFloatCsr(m) == [shape |-> m.shape, ent |-> [p \in Stored(m) |-> Fl(m.ent[p])]]

\* to_prolongation_matrix_csr: the caller's matrix gets its diagonal set in place
to_prolongation_matrix_csr ==
  /\ csr_out = NoResult
  /\ LET diag == SetDiag(matrix)
         selected == SelectColsCsr(diag, coarse_nodes)
         masked == MaskCsr(selected, baseline_P)
         baseline_row_sum == BaselineRowSum(baseline_P, nodes, normalize_rows_by_node)
         matrix_row_sum == RowSumCsr(masked)
         result == IF normalize_rows
                     THEN ScaleRowsCsr(masked, matrix_row_sum, baseline_row_sum)
                     ELSE AsFloatCsr(masked)
     IN /\ matrix' = diag
        /\ csr_out' = [state |-> "returned", shape |-> result.shape, ent |-> result.ent]
  /\ UNCHANGED <<coarse_nodes, graph_vars, fwd_vars, matrix0, baseline_P, nodes,
                 normalize_rows, normalize_rows_by_node, tensor_out>>

\* matrix.to_dense().type(dtype): a new tensor
ToDense(m) ==
  [shape |-> m.shape,
   val |-> [p \in Positions(m.shape[1], m.shape[2]) |->
              IF p \in Stored(m) THEN Fl(m.ent[p]) ELSE Fl(0)]]

\* matrix[range(num_rows), range(num_rows)] = new_diag
SetDiagDense(t) ==
  [shape |-> t.shape,
   val |-> [p \in DOMAIN t.val |-> IF p[1] = p[2] THEN Fl(1) ELSE t.val[p]]]

\* t[:, coarse_nodes] of a dense tensor; an index past the last column raises IndexError
CanSelectCols(t, coarse) == \A j \in 1..Len(coarse) : coarse[j] < t.shape[2]

SelectColsDense(t, coarse) ==
  [shape |-> <<t.shape[1], Len(coarse)>>,
   val |-> [p \in Positions(t.shape[1], Len(coarse)) |->
              t.val[<<p[1], coarse[p[2] + 1]>>]]]

\* matrix * baseline_zero_mask
MaskDense(t, P) ==
  [shape |-> t.shape,
   val |-> [p \in DOMAIN t.val |->
              FMul(t.val[p], IF P.val[p] # Fl(0) THEN Fl(1) ELSE Fl(0))]]

\* torch.sum(t, dim=1)
RowSumDense(t) ==
  [r \in 0..(t.shape[1] - 1) |->
     FSum([j \in 1..t.shape[2] |-> t.val[<<r, j - 1>>]])]

\* divide by the row sums, nan_to_num, multiply by the targets
ScaleRowsDense(t, matrix_row_sum, baseline_row_sum) ==
  [shape |-> t.shape,
   val |-> [p \in DOMAIN t.val |->
              FMul(NanToNum(FDiv(t.val[p], matrix_row_sum[p[1]])),
                   baseline_row_sum[p[1]])]]

\* to_prolongation_matrix_tensor: returns (matrix[:, coarse_nodes], matrix), where
\* matrix already holds only the coarse columns
to_prolongation_matrix_tensor ==
  /\ tensor_out = NoResult
  /\ LET dense == SetDiagDense(ToDense(matrix))
         selected == SelectColsDense(dense, coarse_nodes)
         P == ToDense(baseline_P)
         masked == MaskDense(selected, P)
         baseline_row_sum ==
           IF normalize_rows_by_node
             THEN [r \in 0..(masked.shape[1] - 1) |-> Fl(nodes[r + 1])]
             ELSE RowSumDense(P)
         matrix_row_sum == RowSumDense(masked)
         result == IF normalize_rows
                     THEN ScaleRowsDense(masked, matrix_row_sum, baseline_row_sum)
                     ELSE masked
     IN tensor_out' =
          IF CanSelectCols(result, coarse_nodes)
            THEN [state |-> "returned",
                  first |-> SelectColsDense(result, coarse_nodes),
                  second |-> result]
            ELSE [state |-> "IndexError"]
  /\ UNCHANGED <<matrix, coarse_nodes, graph_vars, fwd_vars, matrix0, baseline_P, nodes,
                 normalize_rows, normalize_rows_by_node, csr_out>>

\* ------------------------------------------------------------- specifications
\* the graph builder on every input shape, and the conversion back to a matrix
InitGraph ==
  /\ \E nr \in 1..MaxN, nc \in 1..MaxN :
       /\ matrix \in Matrices(nr, nc, MaxNnz, Vals)
       /\ coarse_nodes \in DupFreeSeqs(0..nr, 0, MaxCoarse)
       /\ sparsity_pattern \in DupFreeSeqs(Positions(nr, nc), 0, MaxPat)
  /\ same_indices = <<>> /\ graph = NoGraph /\ gstate = "init" /\ sparse_out = NoResult
  /\ IdleFwd /\ IdleAsm

NextGraph == process \/ dgl_graph_to_sparse_matrices

SpecGraph == InitGraph /\ [][NextGraph]_vars

\* the sparsity matcher inside process, on square matrices
InitMatch ==
  /\ \E n \in 1..MaxN :
       /\ matrix \in Matrices(n, n, MaxNnz, OneVal)
       /\ sparsity_pattern \in DupFreeSeqs(Positions(n, n), 0, MaxPat)
  /\ coarse_nodes = <<0>>
  /\ same_indices = <<>> /\ graph = NoGraph /\ gstate = "init" /\ sparse_out = NoResult
  /\ IdleFwd /\ IdleAsm

NextMatch == process

SpecMatch == InitMatch /\ [][NextMatch]_vars

\* forward on a graph of the dataset (its features as columns, as encode_nodes
\* and encode_edges concatenate them along dimension 1)
InitForward ==
  /\ \E n \in 1..MaxN :
       /\ matrix \in Matrices(n, n, MaxNnz, OneVal)
       /\ coarse_nodes \in DupFreeSeqs(0..(n - 1), 1, MaxCoarse)
       /\ sparsity_pattern \in DupFreeSeqs(Positions(n, n), 0, 1)
  /\ \E b \in {BuildGraph(matrix, coarse_nodes, sparsity_pattern, "loop")} :
        /\ b.state = "built"
        /\ graph = b.g
        /\ same_indices = b.same
  /\ gstate = "built" /\ sparse_out = NoResult
  /\ pc = "start" /\ scope = <<>> /\ n_encs = NoTerm /\ e_encs = NoTerm
  /\ h = Data("h") /\ calls = <<>>
  /\ IdleAsm

NextForward ==
  \/ forward_encode
  \/ forward_round1
  \/ forward_round2
  \/ forward_round3
  \/ forward_decode

SpecForward == InitForward /\ [][NextForward]_vars

\* the two assemblers on an n x n matrix, a coarse list and an n x num_coarse baseline
Min(a, b) == IF a < b THEN a ELSE b

InitAsm ==
  /\ \E n \in 1..MaxN :
       /\ matrix \in Matrices(n, n, MaxNnz, Vals)
       /\ coarse_nodes \in DupFreeSeqs(0..(n - 1), 1, Min(n, MaxCoarse))
       /\ baseline_P \in Matrices(n, Len(coarse_nodes), MaxPat, PVals)
       /\ normalize_rows \in BOOLEAN
       /\ normalize_rows_by_node \in BOOLEAN
       /\ nodes \in IF normalize_rows /\ normalize_rows_by_node
                      THEN [1..n -> Vols] ELSE {[i \in 1..n |-> 0]}
  /\ matrix0 = matrix
  /\ csr_out = NoResult /\ tensor_out = NoResult
  /\ IdleGraph /\ IdleFwd

NextAsm == to_prolongation_matrix_csr \/ to_prolongation_matrix_tensor

SpecAsm == InitAsm /\ [][NextAsm]_vars

\* ------------------------------------------------------------- claims
Ran == gstate \notin {"idle", "init"}

QueryList == FromArrays(ToCoo(matrix).row, ToCoo(matrix).col)

\* C1: the matcher's vector has the length and order of the query list (the matrix's
\* nonzeros in COO order) and its k-th element is true exactly when the k-th query
\* position is one of the reference positions; so it is all true when the reference
\* is the query set and all false when the two are disjoint.
C1_MatcherIsMembership ==
  Ran => /\ Len(same_indices) = Len(QueryList)
         /\ \A k \in 1..Len(QueryList) :
              same_indices[k] <=> (QueryList[k] \in Range(sparsity_pattern))

C1_Witness ==
  /\ Ran
  /\ \E k, l \in 1..Len(same_indices) : same_indices[k] /\ ~same_indices[l]
  /\ Range(sparsity_pattern) \ Range(QueryList) # {}

Square == matrix.shape[1] = matrix.shape[2]

ValidPartition ==
  /\ IsDupFree(coarse_nodes)
  /\ Range(coarse_nodes) \subseteq 0..(matrix.shape[1] - 1)
  /\ Range(coarse_nodes) # {}
  /\ Range(coarse_nodes) # 0..(matrix.shape[1] - 1)

\* C2: for a square matrix with N rows and a coarse set that is a strict, non-empty
\* subset of 0..N-1, process builds a graph with exactly N nodes and one edge per
\* stored nonzero (row to column), one-hot node features C/F with C = 1 exactly on
\* the coarse indices, and one-hot edge features SP1/SP0.
C2_GraphShape ==
  (Ran /\ Square /\ ValidPartition) =>
     /\ gstate = "built"
     /\ graph.num_nodes = matrix.shape[1]
     /\ Len(graph.src) = Cardinality(Stored(matrix))
     /\ {<<graph.src[k], graph.dst[k]>> : k \in 1..Len(graph.src)} = Stored(matrix)
     /\ \A i \in 1..matrix.shape[1] :
          /\ graph.C[i] + graph.F[i] = 1
          /\ graph.C[i] = 1 <=> (i - 1) \in Range(coarse_nodes)
     /\ \A k \in 1..Len(graph.src) : graph.SP1[k] + graph.SP0[k] = 1

\* C7: process fails with ShapeMismatch on a non-square matrix and with
\* InvalidPartition on a coarse set that is empty, covers every node or holds an
\* index outside 0..N-1, and produces no graph in these cases.
C7_InputValidation ==
  Ran => /\ ~Square => (gstate = "ShapeMismatch" /\ graph = NoGraph)
         /\ (Square /\ ~ValidPartition) =>
              (gstate = "InvalidPartition" /\ graph = NoGraph)

\* C10: the matrix dgl_graph_to_sparse_matrices returns for a graph has shape
\* (n_nodes, n_nodes) and holds exactly the triples (src, dst, value) of the graph's
\* edges, so a matrix turned into a graph and back keeps its triples.
C10_GraphToMatrixRoundTrip ==
  sparse_out # NoResult =>
     /\ sparse_out.state = "returned"
     /\ sparse_out.shape = <<graph.num_nodes, graph.num_nodes>>
     /\ sparse_out.triples = {<<p[1], p[2], matrix.ent[p]>> : p \in Stored(matrix)}

RoundOutput(k) == Relu(SAGEConv(calls[k].conv, calls[k].feat, calls[k].edge_weight))

\* C9: the first message-passing round takes the encoded node latents alone; every
\* later round takes the concatenation of the previous round's output and the
\* encoded node latents computed before round 1, in this order; every round is
\* given the encoded edge latents as edge weights, and these stay as encoded until
\* the decoding is done.
C9_RoundStructure ==
  /\ \A k \in 1..Len(calls) :
       /\ calls[k].edge_weight = encode_edges
       /\ k = 1 => calls[k].feat = encode_nodes
       /\ k > 1 => calls[k].feat = Cat(<<RoundOutput(k - 1), encode_nodes>>)
  /\ pc \in {"encoded", "round1", "round2", "round3", "returned"} =>
       /\ e_encs = encode_edges
       /\ scope.edge_encs = encode_edges
       /\ n_encs = encode_nodes

C9_Witness ==
  /\ pc = "returned"
  /\ Len(calls) = 3
  /\ graph.new_P = decode_edges(SAGEConv("conv2", calls[3].feat, calls[3].edge_weight))

\* --- the assemblers' inputs as the caller passed them, and what was returned
NumRows == matrix0.shape[1]
NumCoarse == Len(coarse_nodes)

BaselineNonzero(p) == p \in Stored(baseline_P) /\ baseline_P.ent[p] # 0

\* entry (r, c) of the caller's matrix with its diagonal read as 1
WithUnitDiag(r, c) ==
  IF r = c THEN 1 ELSE IF <<r, c>> \in Stored(matrix0) THEN matrix0.ent[<<r, c>>] ELSE 0

\* the sum of row r after column selection and masking
MaskedRowSum(r) ==
  Sum([j \in 1..NumCoarse |->
         IF BaselineNonzero(<<r, j - 1>>) THEN WithUnitDiag(r, coarse_nodes[j]) ELSE 0])

TargetRowSum(r) ==
  IF normalize_rows_by_node THEN nodes[r + 1]
  ELSE Sum([j \in 1..NumCoarse |->
              IF <<r, j - 1>> \in Stored(baseline_P) THEN baseline_P.ent[<<r, j - 1>>]
              ELSE 0])

CsrReturned == csr_out.state = "returned"
TensorReturned == tensor_out.state = "returned"

CsrDense ==
  [shape |-> csr_out.shape,
   val |-> [p \in Positions(csr_out.shape[1], csr_out.shape[2]) |->
              IF p \in DOMAIN csr_out.ent THEN csr_out.ent[p] ELSE Fl(0)]]

ReturnedMatrices ==
  (IF CsrReturned THEN {CsrDense} ELSE {})
    \cup (IF TensorReturned THEN {tensor_out.first, tensor_out.second} ELSE {})

\* C3: every matrix an assembler returns (the csr result and both values of the
\* tensor variant) has shape (N, num_coarse) and is nonzero only where baseline_P is.
C3_ShapeAndPattern ==
  \A X \in ReturnedMatrices :
     /\ X.shape = <<NumRows, NumCoarse>>
     /\ \A p \in DOMAIN X.val : X.val[p] # Fl(0) => BaselineNonzero(p)

\* C4: with normalize_rows, every row whose sum after column selection and masking
\* is nonzero sums, in each returned matrix, to its target: nodes[i] under
\* normalize_rows_by_node, otherwise the sum of row i of baseline_P.
C4_RowSumsMatchTarget ==
  normalize_rows =>
    \A X \in ReturnedMatrices : \A r \in 0..(NumRows - 1) :
       MaskedRowSum(r) # 0 => RowSumDense(X)[r] = Fl(TargetRowSum(r))

C4_Witness ==
  /\ normalize_rows /\ CsrReturned /\ TensorReturned
  /\ \E r \in 0..(NumRows - 1) :
       /\ MaskedRowSum(r) \notin {0, TargetRowSum(r)}
       /\ TargetRowSum(r) # 0
       /\ Cardinality({p \in DOMAIN csr_out.ent : p[1] = r}) = 2
       /\ \E p \in DOMAIN csr_out.ent : p[1] = r /\ csr_out.ent[p].d > 1

\* C5: on the same input the csr variant and the tensor variant (its assembled
\* matrix, the second value it returns) return matrices of the same shape that are
\* equal at every position, rows of masked sum zero included.
C5_VariantsAgree ==
  (CsrReturned /\ TensorReturned) => CsrDense = tensor_out.second

\* C6: with normalize_rows, every row whose masked sum is zero (no stored entry, or
\* stored entries that cancel) is entirely zero in each returned matrix, and no
\* returned entry is infinite or nan.
C6_SafeDivision ==
  normalize_rows =>
    \A X \in ReturnedMatrices :
       /\ \A p \in DOMAIN X.val : X.val[p].k = "fin"
       /\ \A p \in DOMAIN X.val : MaskedRowSum(p[1]) = 0 => X.val[p] = Fl(0)

\* C8: after a call of either assembler the caller's matrix holds the entries it
\* held before the call, its diagonal included (coarse_nodes and baseline_P are
\* written by no action).
C8_InputsUnchanged ==
  (csr_out # NoResult \/ tensor_out # NoResult) => matrix = matrix0

====
